---- MODULE Spec2Model ----
(***************************************************************************)
(* AnimalShelter (CRUD_Python_Module_7.py): a CRUD wrapper around one      *)
(* MongoDB collection, with a read-max-then-insert rec_num allocation.     *)
(*                                                                         *)
(* The collection is a set of documents; a document is a function from     *)
(* field names to tagged BSON values.  Every Python int of the model fits  *)
(* 32 bits, so it is stored with BSON type "int".                          *)
(***************************************************************************)
EXTENDS Integers, Sequences, FiniteSets, TLC

VARIABLES
    coll,       \* self.collection: the set of stored documents
    nextId,     \* the next ObjectId the driver generates for an insert
    last,       \* the last completed call: its arguments, the collection before it, its result
    cursor,     \* the cursor the last read returned, until it is consumed
    assigned,   \* history: the rec_num of every acknowledged create, in order
    proc,       \* concurrent callers of create: position, argument, local rec_num, result
    steps       \* number of calls made (bounds the exploration of Spec)

vars == <<coll, nextId, last, cursor, assigned, proc, steps>>

----------------------------------------------------------------------------
(* Bounds *)

MaxId == 4
MaxOps == 2

----------------------------------------------------------------------------
(* BSON values and documents *)

IntV(n) == [t |-> "int", v |-> n]
StrV(s) == [t |-> "string", s |-> s]
ArrV(a) == [t |-> "array", a |-> a]
Oid(k) == [t |-> "objectId", v |-> k]

None == [t |-> "None"]
Empty == [f \in {} |-> 0]

SetField(d, f, v) == [g \in DOMAIN d \cup {f} |-> IF g = f THEN v ELSE d[g]]

Return(v) == [kind |-> "return", val |-> v]
Raise(e) == [kind |-> "raise", exc |-> e]

SeqMax(a) == CHOOSE m \in {a[i] : i \in 1..Len(a)} : \A i \in 1..Len(a) : a[i] <= m
SeqMin(a) == CHOOSE m \in {a[i] : i \in 1..Len(a)} : \A i \in 1..Len(a) : m <= a[i]

----------------------------------------------------------------------------
(* The store's query semantics, as far as the module uses them *)

\* {"rec_num": {"$type": "int"}}: the field is a 32-bit integer, or an array
\* holding one (the store's $type looks into arrays).
TypeIntMatch(d) ==
    /\ "rec_num" \in DOMAIN d
    /\ \/ d["rec_num"].t = "int"
       \/ d["rec_num"].t = "array" /\ Len(d["rec_num"].a) > 0

\* Mutant: the sort direction reversed.
DescKeyAscending(d) == IF d["rec_num"].t = "int" THEN 0 - d["rec_num"].v ELSE 0 - SeqMax(d["rec_num"].a)

\* sort=[("rec_num", -1)] over the documents TypeIntMatch keeps: an array sorts
\* by its largest element.
DescKey(d) == IF d["rec_num"].t = "int" THEN d["rec_num"].v ELSE SeqMax(d["rec_num"].a)

\* limit=1; next(cursor, None): the documents that may come first (ties come
\* in the store's order).
FindTop(c) ==
    LET m == {d \in c : TypeIntMatch(d)}
    IN  {d \in m : \A e \in m : DescKey(e) <= DescKey(d)}

\* A filter value matches an equal field value, or an array holding it.
ValueMatch(v, q) ==
    \/ v = q
    \/ v.t = "array" /\ q.t = "int" /\ \E i \in 1..Len(v.a) : v.a[i] = q.v

\* An equality filter; the empty filter matches every document.
Matches(d, q) == \A f \in DOMAIN q : f \in DOMAIN d /\ ValueMatch(d[f], q[f])

\* {"$set": changed_fields} applied to one document.
SetFields(d, ch) == [f \in DOMAIN d \cup DOMAIN ch |-> IF f \in DOMAIN ch THEN ch[f] ELSE d[f]]

----------------------------------------------------------------------------
(* Argument domains *)

Procs == {1, 2}

RecNumValues == {IntV(1), IntV(2), StrV("abc"), ArrV(<<2>>)}

\* Caller records for create: absent, empty, without and with a rec_num.
DataArgs == {None, Empty, [name |-> StrV("Rex")], [name |-> StrV("Fido"), rec_num |-> IntV(7)]}

Queries == {Empty, [rec_num |-> IntV(1)], [name |-> StrV("Rex")], [rec_num |-> IntV(999)]}

\* changed_fields that leave rec_num alone, and all of them.
NameChanges == {[name |-> StrV("Fido")], [name |-> StrV("Rex")]}
Changes == NameChanges \cup {[rec_num |-> ArrV(<<2>>)]}

\* Documents a collection may already hold: with or without a name, with an
\* integer, a malformed or no rec_num.
InitShapes ==
    {Empty, [name |-> StrV("Rex")]}
    \cup {[rec_num |-> r] : r \in RecNumValues}
    \cup {[name |-> StrV("Rex"), rec_num |-> r] : r \in {IntV(1), IntV(2)}}

MaxInitDocs == 2

InitColls ==
    UNION {{{SetField(f[i], "_id", Oid(i)) : i \in 1..n} : f \in [1..n -> InitShapes]}
           : n \in 0..MaxInitDocs}

----------------------------------------------------------------------------
(* The module *)

\* Lines 17-18: the names the module imports.
ImportedNames == {"MongoClient", "ObjectId"}

\* Mutant: the increment forgotten.
PlusOneNoIncrement(v) == IF v.t = "int" THEN Return(v.v) ELSE Raise("TypeError")

\* Line 84 on the record find returned: record["rec_num"] + 1.
PlusOne(v) == IF v.t = "int" THEN Return(v.v + 1) ELSE Raise("TypeError")

\* get_next_rec_num: what the call may return or raise on collection c.
GetNextRecNumOutcomes(c) ==
    IF FindTop(c) = {}
    THEN {Return(1)}
    ELSE {PlusOne(d["rec_num"]) : d \in FindTop(c)}

\* Mutant: the guard on the argument lost.
IsNoneNever(data) == FALSE

\* Line 107: data is not None.
IsNone(data) == data = None

\* Mutant: a rec_num the caller supplied is kept.
AssignRecNumKeep(data, n) ==
    IF "rec_num" \in DOMAIN data THEN data ELSE SetField(data, "rec_num", IntV(n))

\* Line 108: data["rec_num"] = <the number get_next_rec_num returned>.
AssignRecNum(data, n) == SetField(data, "rec_num", IntV(n))

\* Mutant: the number allocated when the insert runs, from the collection as
\* it is then.
InsertedDocFresh(data, id) ==
    LET o == CHOOSE x \in GetNextRecNumOutcomes(coll) : TRUE
    IN  SetField(IF o.kind = "return" THEN SetField(data, "rec_num", IntV(o.val)) ELSE data,
                 "_id", Oid(id))

\* Line 110: the document insert_one stores; the driver adds the _id.
InsertedDoc(data, id) == SetField(data, "_id", Oid(id))

\* Lines 112-113: the handler of an exception insert_one raised. The except
\* clause names PyMongoError, which is looked up when an exception arrives.
OnInsertError ==
    IF "PyMongoError" \in ImportedNames THEN Return(FALSE) ELSE Raise("NameError")

\* Mutant: the matched count returned.
MatchedCount(c, q, ch) == Cardinality({d \in c : Matches(d, q)})

\* update_many's modified_count: matching documents whose content changed.
ModifiedCount(c, q, ch) == Cardinality({d \in c : Matches(d, q) /\ SetFields(d, ch) # d})

\* delete_many's deleted_count.
DeletedCount(c, q) == Cardinality({d \in c : Matches(d, q)})

GetNextRecNum ==
    /\ \E o \in GetNextRecNumOutcomes(coll) :
         last' = [op |-> "get_next_rec_num", before |-> coll, calls |-> <<"find">>, ret |-> o]
    /\ UNCHANGED <<coll, nextId, cursor, assigned>>

Create(data) ==
    /\ nextId <= MaxId
    /\ IF IsNone(data)
       THEN /\ last' = [op |-> "create", data |-> data, before |-> coll, calls |-> <<>>,
                        ret |-> Raise("Exception")]
            /\ UNCHANGED <<coll, nextId, assigned>>
       ELSE \E o \in GetNextRecNumOutcomes(coll) :
              IF o.kind = "raise"
              THEN /\ last' = [op |-> "create", data |-> data, before |-> coll,
                               calls |-> <<"find">>, ret |-> o]
                   /\ UNCHANGED <<coll, nextId, assigned>>
              ELSE \E insertRaises \in BOOLEAN :
                     IF insertRaises
                     THEN /\ last' = [op |-> "create", data |-> data, before |-> coll,
                                      calls |-> <<"find", "insert_one">>, nv |-> o.val,
                                      insertRaised |-> TRUE, ret |-> OnInsertError]
                          /\ UNCHANGED <<coll, nextId, assigned>>
                     ELSE /\ coll' = coll \cup {InsertedDoc(AssignRecNum(data, o.val), nextId)}
                          /\ nextId' = nextId + 1
                          /\ assigned' = Append(assigned, o.val)
                          /\ last' = [op |-> "create", data |-> data, before |-> coll,
                                      calls |-> <<"find", "insert_one">>, nv |-> o.val,
                                      insertRaised |-> FALSE, ret |-> Return(TRUE)]
    /\ UNCHANGED cursor

Update(q, ch) ==
    /\ coll' = {IF Matches(d, q) THEN SetFields(d, ch) ELSE d : d \in coll}
    /\ last' = [op |-> "update", query |-> q, changed |-> ch, before |-> coll,
                calls |-> <<"update_many">>, ret |-> Return(ModifiedCount(coll, q, ch))]
    /\ UNCHANGED <<nextId, cursor, assigned>>

Delete(q) ==
    /\ coll' = {d \in coll : ~Matches(d, q)}
    /\ last' = [op |-> "delete", query |-> q, before |-> coll,
                calls |-> <<"delete_many">>, ret |-> Return(DeletedCount(coll, q))]
    /\ UNCHANGED <<nextId, cursor, assigned>>

\* sort=[("rec_num", 1)]: a missing field sorts first, then numbers, then
\* strings; an array sorts by its smallest element.
AscClass(d) ==
    IF "rec_num" \notin DOMAIN d THEN 0
    ELSE IF d["rec_num"].t = "string" THEN 2 ELSE 1

AscValue(d) == IF d["rec_num"].t = "int" THEN d["rec_num"].v ELSE SeqMin(d["rec_num"].a)

Before(d, e) ==
    \/ AscClass(d) < AscClass(e)
    \/ AscClass(d) = 1 /\ AscClass(e) = 1 /\ AscValue(d) < AscValue(e)

\* The orders in which a cursor may yield the documents of s.
SortedSeqs(s) ==
    {x \in [1..Cardinality(s) -> s] :
        /\ \A i, j \in 1..Cardinality(s) : i # j => x[i] # x[j]
        /\ \A i, j \in 1..Cardinality(s) : i < j => ~Before(x[j], x[i])}

\* read: find() builds a cursor and sends nothing; it raises only on a filter
\* it rejects, which the try catches.
Read(q) ==
    /\ \E findRaises \in BOOLEAN :
         IF findRaises
         THEN /\ last' = [op |-> "read", query |-> q, before |-> coll, failed |-> TRUE,
                          printed |-> TRUE, ret |-> Return([type |-> "list", items |-> <<>>])]
              /\ cursor' = [open |-> FALSE]
         ELSE /\ last' = [op |-> "read", query |-> q, before |-> coll, failed |-> FALSE,
                          printed |-> FALSE, ret |-> Return([type |-> "cursor", query |-> q])]
              /\ cursor' = [open |-> TRUE, query |-> q]
    /\ UNCHANGED <<coll, nextId, assigned>>

\* The caller iterates the cursor read returned: the query runs now, outside
\* read's try block.
Consume ==
    /\ cursor.open
    /\ \E storeRaises \in BOOLEAN :
         IF storeRaises
         THEN last' = [op |-> "consume", query |-> cursor.query, before |-> coll,
                       failed |-> TRUE, ret |-> Raise("PyMongoError")]
         ELSE \E x \in SortedSeqs({d \in coll : Matches(d, cursor.query)}) :
                last' = [op |-> "consume", query |-> cursor.query, before |-> coll,
                         failed |-> FALSE, ret |-> Return(x)]
    /\ cursor' = [open |-> FALSE]
    /\ UNCHANGED <<coll, nextId, assigned>>

----------------------------------------------------------------------------
(* create called by concurrent callers: the find of get_next_rec_num and the
   insert_one are separate requests to the store, with no lock between them *)

\* Lines 107-108 of caller p.
CFind(p, data) ==
    /\ proc[p].pc = "idle"
    /\ nextId <= MaxId
    /\ IF IsNone(data)
       THEN proc' = [proc EXCEPT ![p] = [pc |-> "done", data |-> data, ret |-> Raise("Exception")]]
       ELSE \E o \in GetNextRecNumOutcomes(coll) :
              IF o.kind = "raise"
              THEN proc' = [proc EXCEPT ![p] = [pc |-> "done", data |-> data, ret |-> o]]
              ELSE proc' = [proc EXCEPT ![p] = [pc |-> "insert", data |-> data, nv |-> o.val]]
    /\ UNCHANGED <<coll, nextId, assigned>>

\* Lines 109-113 of caller p.
CInsert(p) ==
    /\ proc[p].pc = "insert"
    /\ \E insertRaises \in BOOLEAN :
         IF insertRaises
         THEN /\ proc' = [proc EXCEPT ![p] = [pc |-> "done", data |-> proc[p].data,
                                              nv |-> proc[p].nv, ret |-> OnInsertError]]
              /\ UNCHANGED <<coll, nextId, assigned>>
         ELSE /\ coll' = coll \cup {InsertedDoc(AssignRecNum(proc[p].data, proc[p].nv), nextId)}
              /\ nextId' = nextId + 1
              /\ assigned' = Append(assigned, proc[p].nv)
              /\ proc' = [proc EXCEPT ![p] = [pc |-> "done", data |-> proc[p].data,
                                              nv |-> proc[p].nv, ret |-> Return(TRUE)]]

\* Caller p has its result and may call again.
CReturn(p) ==
    /\ proc[p].pc = "done"
    /\ proc' = [proc EXCEPT ![p] = [pc |-> "idle"]]
    /\ UNCHANGED <<coll, nextId, assigned>>

----------------------------------------------------------------------------
(* Specifications *)

InitRest ==
    /\ last = [op |-> "none"]
    /\ cursor = [open |-> FALSE]
    /\ assigned = <<>>
    /\ proc = [p \in Procs |-> [pc |-> "idle"]]
    /\ steps = 0

\* Any collection, then MaxOps calls, one after the other.
Init ==
    /\ coll \in InitColls
    /\ nextId = Cardinality(coll) + 1
    /\ InitRest

Call(A) == steps < MaxOps /\ steps' = steps + 1 /\ UNCHANGED proc /\ A

Next ==
    \/ \E d \in DataArgs : Call(Create(d))
    \/ Call(GetNextRecNum)
    \/ \E q \in Queries, ch \in Changes : Call(Update(q, ch))
    \/ \E q \in Queries : Call(Delete(q))
    \/ \E q \in Queries : Call(Read(q))
    \/ Call(Consume)

Spec == Init /\ [][Next]_vars

\* An empty collection, then create and delete calls one after the other.
InitEmpty ==
    /\ coll = {}
    /\ nextId = 1
    /\ InitRest

InTurn(A) == UNCHANGED <<proc, steps>> /\ A

NextCD ==
    \/ \E d \in DataArgs : InTurn(Create(d))
    \/ \E q \in Queries : InTurn(Delete(q))

SpecCD == InitEmpty /\ [][NextCD]_vars

\* The same with updates that do not list rec_num.
NextCDU ==
    \/ \E d \in DataArgs : InTurn(Create(d))
    \/ \E q \in Queries : InTurn(Delete(q))
    \/ \E q \in Queries, ch \in NameChanges : InTurn(Update(q, ch))

SpecCDU == InitEmpty /\ [][NextCDU]_vars

\* An empty collection and concurrent callers of create.
Conc(A) == UNCHANGED <<last, cursor, steps>> /\ A

NextConc ==
    \/ \E p \in Procs, d \in DataArgs : Conc(CFind(p, d))
    \/ \E p \in Procs : Conc(CInsert(p))
    \/ \E p \in Procs : Conc(CReturn(p))

SpecConc == InitEmpty /\ [][NextConc]_vars

----------------------------------------------------------------------------
(* Claims *)

Acked(p) == proc[p].pc = "done" /\ proc[p].ret = Return(TRUE)

HoldRecNum(n) == {d \in coll : "rec_num" \in DOMAIN d /\ d["rec_num"] = IntV(n)}

\* C1: whenever two concurrent create calls have both read the same next
\* rec_num and both inserts were acknowledged, two stored records hold that
\* same rec_num; SpecConc reaches such a state.
C1_RaceLeavesDuplicates ==
    \A p, q \in Procs :
        (p # q /\ Acked(p) /\ Acked(q) /\ proc[p].nv = proc[q].nv)
            => Cardinality(HoldRecNum(proc[p].nv)) >= 2

C1_Witness ==
    \E p, q \in Procs :
        /\ p # q /\ Acked(p) /\ Acked(q) /\ proc[p].nv = proc[q].nv
        /\ Cardinality(HoldRecNum(proc[p].nv)) >= 2

CreateAcked == last.op = "create" /\ last.ret = Return(TRUE)

\* C2 as claimed: the rec_nums of the acknowledged creates, in order, are
\* strictly increasing, records deleted since included.
C2_StrictlyIncreasing ==
    \A i, j \in 1..Len(assigned) : i < j => assigned[i] < assigned[j]

\* C2 amended: an acknowledged create assigns a rec_num strictly greater than
\* the rec_num of every record stored when it was called.
C2_AboveStored ==
    CreateAcked =>
        /\ assigned[Len(assigned)] = last.nv
        /\ HoldRecNum(last.nv) \ last.before # {}
        /\ \A d \in last.before : d["rec_num"].t = "int" /\ d["rec_num"].v < last.nv

C2_Witness ==
    /\ CreateAcked
    /\ last.before # {}
    /\ \E i \in 1..(Len(assigned) - 1) : assigned[i] >= last.nv

InsertRaised == last.op = "create" /\ "insertRaised" \in DOMAIN last /\ last.insertRaised

\* C3: a create whose insert_one raised a driver-level failure returns false.
C3_InsertFailureReturnsFalse == InsertRaised => last.ret = Return(FALSE)

\* C4: create(None) raises, leaves the collection as it was and sends no
\* request to the store.
C4_CreateNoneRaises ==
    (last.op = "create" /\ last.data = None) =>
        /\ last.ret = Raise("Exception")
        /\ coll = last.before
        /\ last.calls = <<>>

C4_Witness == last.op = "create" /\ last.data = None /\ last.before # {}

\* C5: a read whose query fails, when it is issued or when its result is
\* consumed, reports the error and yields an empty sequence; nothing is raised.
C5_ReadFailureYieldsEmpty ==
    /\ (last.op = "read" /\ last.failed) =>
           last.printed /\ last.ret = Return([type |-> "list", items |-> <<>>])
    /\ (last.op = "consume" /\ last.failed) => last.ret = Return(<<>>)

IntTyped(c) == {d \in c : "rec_num" \in DOMAIN d /\ d["rec_num"].t = "int"}

HighestPlusOne(c) ==
    IF IntTyped(c) = {} THEN 1
    ELSE 1 + (CHOOSE m \in {d["rec_num"].v : d \in IntTyped(c)} :
                 \A d \in IntTyped(c) : d["rec_num"].v <= m)

\* C6: get_next_rec_num returns 1 + the highest integer rec_num, 1 when there
\* is none, whatever other records the collection holds, and changes nothing.
C6_NextIsHighestPlusOne ==
    last.op = "get_next_rec_num" =>
        last.ret = Return(HighestPlusOne(last.before)) /\ coll = last.before

InsertAcked == last.op = "create" /\ "insertRaised" \in DOMAIN last /\ ~last.insertRaised

\* C7: a create the store acknowledges returns true and adds exactly one
\* record: its rec_num is the number get_next_rec_num returned in that call, not
\* the caller's, its other fields are the caller's; the records stored before
\* are unchanged. On an empty collection the number is 1, and 2 after that.
C7_CreateAddsOneRecord ==
    InsertAcked =>
        /\ last.ret = Return(TRUE)
        /\ Return(last.nv) \in GetNextRecNumOutcomes(last.before)
        /\ last.before \subseteq coll
        /\ Cardinality(coll \ last.before) = 1
        /\ \A d \in coll \ last.before :
              /\ DOMAIN d = DOMAIN last.data \cup {"rec_num", "_id"}
              /\ d["rec_num"] = IntV(last.nv)
              /\ \A f \in DOMAIN last.data \ {"rec_num"} : d[f] = last.data[f]
        /\ last.before = {} => last.nv = 1
        /\ (/\ last.before # {}
            /\ \A d \in last.before : d \in IntTyped(last.before) /\ d["rec_num"].v = 1)
               => last.nv = 2

C7_Witness ==
    /\ InsertAcked
    /\ "rec_num" \in DOMAIN last.data
    /\ last.data["rec_num"] # IntV(last.nv)
    /\ last.before # {}

\* C8: update sets the listed fields on every matching record, leaves their
\* other fields and every other record alone, adds and removes none, and returns
\* the number of matching records whose content changed.
C8_UpdateMergesAndCounts ==
    last.op = "update" =>
        /\ {d["_id"] : d \in coll} = {d["_id"] : d \in last.before}
        /\ Cardinality(coll) = Cardinality(last.before)
        /\ \A d \in last.before : \E e \in coll :
              /\ e["_id"] = d["_id"]
              /\ IF Matches(d, last.query)
                 THEN /\ DOMAIN e = DOMAIN d \cup DOMAIN last.changed
                      /\ \A f \in DOMAIN last.changed : e[f] = last.changed[f]
                      /\ \A f \in DOMAIN d \ DOMAIN last.changed : e[f] = d[f]
                 ELSE e = d
        /\ last.ret = Return(Cardinality({d \in last.before :
                                            Matches(d, last.query) /\ d \notin coll}))

C8_Witness ==
    /\ last.op = "update"
    /\ last.ret.val >= 1
    /\ \E d \in last.before : Matches(d, last.query) /\ d \in coll
    /\ \E d \in last.before : Matches(d, last.query) /\ "rec_num" \in DOMAIN d /\ d \notin coll

\* C9: create({}) raises and inserts nothing.
C9_CreateEmptyRaises ==
    (last.op = "create" /\ last.data = Empty) =>
        last.ret.kind = "raise" /\ coll = last.before

\* C10: the stored records have pairwise distinct rec_nums, each an integer
\* of at least 1.
C10_StoredRecNumsDistinct ==
    /\ \A d \in coll :
          "rec_num" \in DOMAIN d /\ d["rec_num"].t = "int" /\ d["rec_num"].v >= 1
    /\ \A d, e \in coll : d # e => d["rec_num"] # e["rec_num"]

C10_Witness ==
    /\ Cardinality(coll) >= 2
    /\ Len(assigned) > Cardinality(coll)
    /\ last.op = "update"
    /\ last.ret.val >= 1

====
